---- MODULE Spec2Model ----
(***************************************************************************)
(* Project Total Extractor (src/app.py).                                   *)
(*                                                                         *)
(* A script run reads the uploaded workbook, extracts the "Total for ..."  *)
(* rows (column A label, column G amount), shows them, offers them as a    *)
(* download and optionally sends a top-N selection to the GPT summary.     *)
(*                                                                         *)
(* Text is a sequence of one-character strings.  Numbers are exact         *)
(* decimals held in tenths (500 is 5000, 12.5 is 125).                     *)
(***************************************************************************)
EXTENDS Integers, Sequences, FiniteSets, TLC

VARIABLES
    pc,           \* "idle" | "gpt" (inside gpt_make_summary) | "done" | "crashed"
    excel_bytes,  \* the uploaded file
    use_gpt,      \* st.toggle
    top_n,        \* st.number_input
    summary_df,   \* result of extract_project_totals
    shown,        \* what the page displays under "Extracted Project Totals"
    out_bytes,    \* the file behind the download button
    df_for_gpt,   \* the selection handed to gpt_make_summary
    gpt_status,   \* "none" | "ok" | "error"
    last_call     \* history: input and outcome of the previous extract call

vars == <<pc, excel_bytes, use_gpt, top_n, summary_df, shown, out_bytes,
          df_for_gpt, gpt_status, last_call>>

---------------------------------------------------------------------------
(* Bounds *)

MaxRows == 2
MaxRest == 3
MaxAmtLen == 3
MaxTopN == 2
MaxRepeatRows == 1

---------------------------------------------------------------------------
(* Cell values of a sheet / DataFrame *)

Blank == [k |-> "blank", n |-> 0, s |-> <<>>]
NoneVal == [k |-> "none", n |-> 0, s |-> <<>>]
IntCell(v) == [k |-> "int", n |-> v * 10, s |-> <<>>]
FloatCell(tenths) == [k |-> "float", n |-> tenths, s |-> <<>>]
TextCell(t) == [k |-> "text", n |-> 0, s |-> t]

NaN == [k |-> "nan", n |-> 0]
Num(tenths) == [k |-> "num", n |-> tenths]

Unreadable == [ok |-> FALSE, width |-> 0, rows |-> <<>>]
Sheet(w, rs) == [ok |-> TRUE, width |-> w, rows |-> rs]

AmountCol == 6
TopNMin == 1

---------------------------------------------------------------------------
(* Characters *)

IsSpace(c) == c \in {" ", "\t", "\n", "\r", "\f"}

Lower(c) ==
    CASE c = "T" -> "t" [] c = "O" -> "o" [] c = "A" -> "a" [] c = "L" -> "l"
      [] c = "F" -> "f" [] c = "R" -> "r" [] c = "H" -> "h" [] c = "Z" -> "z"
      [] OTHER -> c

IsDigit(c) == c \in {"0", "1", "2", "3", "4", "5", "6", "7", "8", "9"}

DigitVal(c) ==
    CASE c = "0" -> 0 [] c = "1" -> 1 [] c = "2" -> 2 [] c = "3" -> 3
      [] c = "4" -> 4 [] c = "5" -> 5 [] c = "6" -> 6 [] c = "7" -> 7
      [] c = "8" -> 8 [] c = "9" -> 9

---------------------------------------------------------------------------
(* TOTAL_FOR_RE: start, whitespace run, the literal Total for, whitespace  *)
(* run, group 1 = any characters but newline, whitespace run, end;        *)
(* compiled with IGNORECASE                                               *)

TotalForLiteral == <<"T", "o", "t", "a", "l", " ", "f", "o", "r">>

\* the literal, compared case-insensitively, at position i of s
LiteralAt(s, i) ==
    /\ i + Len(TotalForLiteral) - 1 <= Len(s)
    /\ \A j \in 1..Len(TotalForLiteral) :
          Lower(s[i + j - 1]) = Lower(TotalForLiteral[j])

RECURSIVE SpaceRun(_, _)
\* how many characters \s* can take from position i
SpaceRun(s, i) ==
    IF i <= Len(s) /\ IsSpace(s[i]) THEN 1 + SpaceRun(s, i + 1) ELSE 0

RECURSIVE DotRun(_, _)
\* how many characters .* can take from position i (the dot takes no newline)
DotRun(s, i) ==
    IF i <= Len(s) /\ s[i] # "\n" THEN 1 + DotRun(s, i + 1) ELSE 0

\* the end anchor without MULTILINE: the end, or just before a final newline
DollarAt(s, q) ==
    \/ q = Len(s) + 1
    \/ q = Len(s) /\ s[q] = "\n"

\* every way the pattern matches s: <<a, b, c, d>> are the lengths taken by
\* the leading \s*, the \s* after the literal, the group (.*) and the last \s*
MatchSplits(s) ==
    LET lit == Len(TotalForLiteral)
    IN  UNION {
          UNION {
            UNION {
              {<<a, b, c, d>> :
                  d \in {x \in 0..SpaceRun(s, a + lit + 1 + b + c) :
                            DollarAt(s, a + lit + 1 + b + c + x)}}
              : c \in 0..DotRun(s, a + lit + 1 + b)}
            : b \in 0..SpaceRun(s, a + lit + 1)}
          : a \in {x \in 0..SpaceRun(s, 1) : LiteralAt(s, x + 1)}}

\* greedy quantifiers: the engine returns the split that is largest in
\* a, then b, then c, then d
GreedyBefore(x, y) ==
    \/ x[1] > y[1]
    \/ x[1] = y[1] /\ x[2] > y[2]
    \/ x[1] = y[1] /\ x[2] = y[2] /\ x[3] > y[3]
    \/ x[1] = y[1] /\ x[2] = y[2] /\ x[3] = y[3] /\ x[4] >= y[4]

\* TOTAL_FOR_RE.match(s): [matched, group1]
TotalForMatch(s) ==
    LET ms == MatchSplits(s)
    IN  IF ms = {} THEN [matched |-> FALSE, group1 |-> <<>>]
        ELSE LET m == CHOOSE x \in ms : \A y \in ms : GreedyBefore(x, y)
                 from == m[1] + Len(TotalForLiteral) + m[2] + 1
             IN  [matched |-> TRUE, group1 |-> SubSeq(s, from, from + m[3] - 1)]

RECURSIVE lstrip(_)
lstrip(s) == IF s # <<>> /\ IsSpace(Head(s)) THEN lstrip(Tail(s)) ELSE s

RECURSIVE rstrip(_)
rstrip(s) ==
    IF s # <<>> /\ IsSpace(s[Len(s)]) THEN rstrip(SubSeq(s, 1, Len(s) - 1)) ELSE s

\* str.strip()
strip(s) == rstrip(lstrip(s))

---------------------------------------------------------------------------
(* pd.to_numeric on the Total Amount column *)

RECURSIVE DigitsAcc(_, _, _)
\* the digit loop of the number scanner: position after the digits, value
DigitsAcc(s, i, acc) ==
    IF i <= Len(s) /\ IsDigit(s[i])
    THEN DigitsAcc(s, i + 1, acc * 10 + DigitVal(s[i]))
    ELSE [pos |-> i, val |-> acc]

\* numeric text as pandas scans it: blanks, a sign, digits, blanks, end.
\* (decimal point and exponent are outside the input alphabet)
ParseNumber(s) ==
    LET i0 == 1 + SpaceRun(s, 1)
        neg == i0 <= Len(s) /\ s[i0] = "-"
        i1 == IF i0 <= Len(s) /\ s[i0] \in {"-", "+"} THEN i0 + 1 ELSE i0
        dg == DigitsAcc(s, i1, 0)
        i2 == dg.pos + SpaceRun(s, dg.pos)
    IN  IF dg.pos > i1 /\ i2 = Len(s) + 1
        THEN [ok |-> TRUE, n |-> (IF neg THEN 0 - dg.val ELSE dg.val) * 10]
        ELSE [ok |-> FALSE, n |-> 0]

\* one element of the column: [raised, v]
CoerceZeroIsMissing(cell, errors) ==
    CASE cell.k \in {"int", "float"} ->
            [raised |-> FALSE, v |-> IF cell.n = 0 THEN NaN ELSE Num(cell.n)]
      [] cell.k \in {"blank", "none"} -> [raised |-> FALSE, v |-> NaN]
      [] cell.k = "text" ->
            IF cell.s = <<>> THEN [raised |-> FALSE, v |-> NaN]
            ELSE LET r == ParseNumber(cell.s)
                 IN  IF r.ok /\ r.n # 0 THEN [raised |-> FALSE, v |-> Num(r.n)]
                     ELSE [raised |-> FALSE, v |-> NaN]

CoerceCell(cell, errors) ==
    CASE cell.k \in {"int", "float"} -> [raised |-> FALSE, v |-> Num(cell.n)]
      [] cell.k \in {"blank", "none"} -> [raised |-> FALSE, v |-> NaN]
      [] cell.k = "text" ->
            IF cell.s = <<>> THEN [raised |-> FALSE, v |-> NaN]
            ELSE LET r == ParseNumber(cell.s)
                 IN  IF r.ok THEN [raised |-> FALSE, v |-> Num(r.n)]
                     ELSE IF errors = "coerce" THEN [raised |-> FALSE, v |-> NaN]
                     ELSE [raised |-> TRUE, v |-> NaN]

\* pd.to_numeric(column, errors=...): [raised, col]
to_numeric(col, errors) ==
    LET each == [i \in 1..Len(col) |-> CoerceCell(col[i], errors)]
    IN  [raised |-> \E i \in 1..Len(col) : each[i].raised,
         col |-> [i \in 1..Len(col) |-> each[i].v]]

\* the whole column is lost when one element does not convert
NormalizeAllOrNothing(rows) ==
    LET r == to_numeric([i \in 1..Len(rows) |-> rows[i].amount], "raise")
    IN  IF r.raised THEN [raised |-> FALSE, col |-> [i \in 1..Len(rows) |-> NaN]]
        ELSE r

NormalizeStrict(rows) == to_numeric([i \in 1..Len(rows) |-> rows[i].amount], "raise")

\* out["Total Amount"] = pd.to_numeric(out["Total Amount"], errors="coerce")
Normalize(rows) == to_numeric([i \in 1..Len(rows) |-> rows[i].amount], "coerce")

---------------------------------------------------------------------------
(* extract_project_totals *)

\* pd.read_excel(..., header=None): [raised, rows]
read_excel(bytes) ==
    IF bytes.ok THEN [raised |-> FALSE, rows |-> bytes.rows]
    ELSE [raised |-> TRUE, rows |-> <<>>]

\* col_a = row.iloc[0] if len(row) > 0 else None
ColA(row) == IF Len(row) > 0 THEN row[1] ELSE NoneVal

\* total_amount = row.iloc[6] if len(row) > 6 else None
ColG(row) == IF Len(row) > AmountCol THEN row[AmountCol + 1] ELSE NoneVal

\* isinstance(col_a, str) and TOTAL_FOR_RE.match(col_a)
RowMatches(row) == ColA(row).k = "text" /\ TotalForMatch(ColA(row).s).matched

ProjectNameLeftStripped(row) == lstrip(TotalForMatch(ColA(row).s).group1)

\* project_name = (m.group(1) or "").strip()
ProjectName(row) == strip(TotalForMatch(ColA(row).s).group1)

RECURSIVE ScanRowsPrepend(_)
ScanRowsPrepend(table) ==
    IF table = <<>> THEN <<>>
    ELSE LET rest == ScanRowsPrepend(Tail(table))
             row == Head(table)
         IN  IF RowMatches(row)
             THEN rest \o <<[name |-> ProjectName(row), amount |-> ColG(row)]>>
             ELSE rest

RECURSIVE ScanRows(_)
\* the loop over df.iterrows(): the list "rows"
ScanRows(table) ==
    IF table = <<>> THEN <<>>
    ELSE LET row == Head(table)
         IN  IF RowMatches(row)
             THEN <<[name |-> ProjectName(row), amount |-> ColG(row)]>>
                      \o ScanRows(Tail(table))
             ELSE ScanRows(Tail(table))

extract_accumulating(bytes) ==
    LET df == read_excel(bytes)
    IN  IF df.raised THEN [raised |-> TRUE, df |-> <<>>]
        ELSE LET rows == ScanRows(df.rows)
                 num == Normalize(rows)
             IN  [raised |-> FALSE,
                  df |-> summary_df \o
                         [i \in 1..Len(rows) |->
                             [name |-> rows[i].name, amount |-> num.col[i]]]]

\* extract_project_totals(excel_bytes): [raised, df]
extract_project_totals(bytes) ==
    LET df == read_excel(bytes)
    IN  IF df.raised THEN [raised |-> TRUE, df |-> <<>>]
        ELSE LET rows == ScanRows(df.rows)
                 num == Normalize(rows)
             IN  IF rows = <<>> THEN [raised |-> FALSE, df |-> <<>>]
                 ELSE IF num.raised THEN [raised |-> TRUE, df |-> <<>>]
                 ELSE [raised |-> FALSE,
                       df |-> [i \in 1..Len(rows) |->
                                 [name |-> rows[i].name, amount |-> num.col[i]]]]

---------------------------------------------------------------------------
(* dataframe_to_excel_bytes *)

ProjectNameHeader == <<"P", "r", "o", "j", "e", "c", "t", " ", "N", "a", "m", "e">>
TotalAmountHeader == <<"T", "o", "t", "a", "l", " ", "A", "m", "o", "u", "n", "t">>

\* a string written by the openpyxl writer: an empty string leaves the cell empty
WriteText(t) == IF t = <<>> THEN Blank ELSE TextCell(t)

\* a float64 written by the openpyxl writer: NaN leaves the cell empty
WriteNumber(a) ==
    IF a.k = "nan" THEN Blank
    ELSE IF a.n % 10 = 0 THEN [k |-> "int", n |-> a.n, s |-> <<>>]
    ELSE FloatCell(a.n)

\* df.to_excel(writer, index=False): the header row, then one row per record
dataframe_to_excel_bytes(df) ==
    IF df = <<>> THEN Sheet(0, <<>>)
    ELSE Sheet(2, <<<<TextCell(ProjectNameHeader), TextCell(TotalAmountHeader)>>>>
                    \o [i \in 1..Len(df) |->
                          <<WriteText(df[i].name), WriteNumber(df[i].amount)>>])

---------------------------------------------------------------------------
(* the top-N selection for the GPT summary *)

\* summary_df.dropna(subset=["Total Amount"])
dropna(df) == SelectSeq(df, LAMBDA r : r.amount.k # "nan")

Arrangements(n) == {p \in [1..n -> 1..n] : \A i, j \in 1..n : i # j => p[i] # p[j]}

sort_values_ascending(df) ==
    {q \in {[i \in 1..Len(df) |-> df[p[i]]] : p \in Arrangements(Len(df))} :
        \A i \in 1..Len(df) - 1 : q[i].amount.n <= q[i + 1].amount.n}

\* df.sort_values("Total Amount", ascending=False): the default sort is not
\* stable, so every descending arrangement is a possible result
sort_values(df) ==
    {q \in {[i \in 1..Len(df) |-> df[p[i]]] : p \in Arrangements(Len(df))} :
        \A i \in 1..Len(df) - 1 : q[i].amount.n >= q[i + 1].amount.n}

\* df.head(n)
head(df, n) == SubSeq(df, 1, IF n < Len(df) THEN n ELSE Len(df))

\* the possible values of df_for_gpt
SelectTopN(df, n) == {head(q, n) : q \in sort_values(dropna(df))}

---------------------------------------------------------------------------
(* Inputs *)

RECURSIVE Repeat(_, _)
Repeat(x, n) == IF n = 0 THEN <<>> ELSE <<x>> \o Repeat(x, n - 1)

SeqsUpTo(S, n) == UNION {[1..m -> S] : m \in 0..n}

LabelA == TextCell(TotalForLiteral \o <<" ", "A">>)
LabelUpperEmpty == TextCell(<<"T", "O", "T", "A", "L", " ", "F", "O", "R">>)
LabelHeader == TextCell(<<"H">>)
LabelNumber == IntCell(7)

CatalogLabels == {LabelA, LabelUpperEmpty, LabelHeader, LabelNumber}
CatalogAmounts == {IntCell(5), IntCell(0 - 3), TextCell(<<"n">>), Blank}

\* a row of a sheet that is w columns wide
RowOf(label, filler, amount, w) ==
    SubSeq(<<label>> \o Repeat(filler, AmountCol - 1) \o <<amount>>, 1, w)

TablesOver(labels, fillers, amounts, maxRows) ==
    {Sheet(0, <<>>)} \cup
    {Sheet(w, rs) :
        w \in {1, AmountCol + 1},
        rs \in SeqsUpTo({RowOf(l, f, a, AmountCol + 1) :
                            l \in labels, f \in fillers, a \in amounts}, maxRows)
              \ {<<>>}}

\* a sheet narrower than the rows drawn for it holds their first w cells
Narrow(t) == Sheet(t.width, [i \in 1..Len(t.rows) |-> SubSeq(t.rows[i], 1, t.width)])

CatalogTables ==
    {Unreadable} \cup
    {Narrow(t) : t \in TablesOver(CatalogLabels, {Blank}, CatalogAmounts, MaxRows)}

LabelLeads == {<<>>, <<" ">>, <<"x">>}
LabelPrefixes ==
    {TotalForLiteral,
     <<"T", "O", "T", "A", "L", " ", "F", "O", "R">>,
     <<"T", "o", "t", "a", "l", "f", "o", "r">>,
     <<"T", "o", "t", "a", "l", " ", "f", "o">>}
LabelRestChars == {" ", "\n", "A", "b"}

LabelCells ==
    {TextCell(l \o p \o r) :
        l \in LabelLeads, p \in LabelPrefixes, r \in SeqsUpTo(LabelRestChars, MaxRest)}
    \cup {LabelNumber, Blank}

LabelTables ==
    {Narrow(t) : t \in TablesOver(LabelCells, {Blank, LabelA}, {IntCell(5)}, 1)}

AmountChars == {" ", "-", "+", "0", "3", ",", "n"}

AmountCells ==
    {TextCell(s) : s \in SeqsUpTo(AmountChars, MaxAmtLen)}
    \cup {IntCell(0), IntCell(0 - 300), IntCell(500), FloatCell(12505), Blank}

AmountTables ==
    {Narrow(t) : t \in TablesOver({LabelA}, {Blank}, AmountCells, 1)}

RepeatTables ==
    {Unreadable} \cup
    {Narrow(t) : t \in TablesOver({LabelA, LabelHeader}, {Blank},
                                  {IntCell(5), TextCell(<<"n">>), Blank},
                                  MaxRepeatRows)}

---------------------------------------------------------------------------
(* The script *)

NoFile == [present |-> FALSE, sheet |-> Sheet(0, <<>>)]
NoCall == [made |-> FALSE, input |-> Unreadable, raised |-> FALSE, df |-> <<>>]

Init ==
    /\ pc = "idle"
    /\ excel_bytes = Unreadable
    /\ use_gpt = FALSE
    /\ top_n = TopNMin
    /\ summary_df = <<>>
    /\ shown = [kind |-> "none", df |-> <<>>]
    /\ out_bytes = NoFile
    /\ df_for_gpt = <<>>
    /\ gpt_status = "none"
    /\ last_call = NoCall

AfterGptErrorUncaught == "crashed"

\* except Exception: st.error(...); st.exception(e); then the caption
AfterGptError == "done"

\* one run of the script on an upload, up to the call of gpt_make_summary
RunScript(From, Inputs, Toggles, TopNs) ==
    /\ pc \in From
    /\ \E b \in Inputs, g \in Toggles, n \in TopNs :
          LET res == extract_project_totals(b)
          IN  /\ excel_bytes' = b
              /\ use_gpt' = g
              /\ top_n' = n
              /\ gpt_status' = "none"
              /\ summary_df' = res.df
              /\ IF res.raised
                 THEN /\ pc' = "crashed"
                      /\ shown' = [kind |-> "none", df |-> <<>>]
                      /\ out_bytes' = NoFile
                      /\ df_for_gpt' = <<>>
                 ELSE IF res.df = <<>>
                 THEN /\ pc' = "done"
                      /\ shown' = [kind |-> "warning", df |-> <<>>]
                      /\ out_bytes' = NoFile
                      /\ df_for_gpt' = <<>>
                 ELSE /\ shown' = [kind |-> "table", df |-> res.df]
                      /\ out_bytes' = [present |-> TRUE,
                                       sheet |-> dataframe_to_excel_bytes(res.df)]
                      /\ IF g
                         THEN /\ df_for_gpt' \in SelectTopN(res.df, n)
                              /\ pc' = "gpt"
                         ELSE /\ df_for_gpt' = <<>>
                              /\ pc' = "done"

\* the history of the previous call, kept for the repeated-call property
Track ==
    last_call' = [made |-> pc # "idle", input |-> excel_bytes,
                  raised |-> pc = "crashed", df |-> summary_df]

\* the first run of a session
Run ==
    /\ RunScript({"idle"}, CatalogTables, BOOLEAN, TopNMin..MaxTopN)
    /\ UNCHANGED last_call

RunLabel ==
    /\ RunScript({"idle"}, LabelTables, {FALSE}, {TopNMin})
    /\ UNCHANGED last_call

RunAmount ==
    /\ RunScript({"idle"}, AmountTables, {FALSE}, {TopNMin})
    /\ UNCHANGED last_call

\* a run, and every rerun after it (each interaction reruns the script)
RunRepeat ==
    /\ RunScript({"idle", "done", "crashed"}, RepeatTables, {FALSE}, {TopNMin})
    /\ Track

\* gpt_make_summary returns; st.json, st.markdown
GptOk ==
    /\ pc = "gpt"
    /\ gpt_status' = "ok"
    /\ pc' = "done"
    /\ UNCHANGED <<excel_bytes, use_gpt, top_n, summary_df, shown, out_bytes,
                   df_for_gpt, last_call>>

\* gpt_make_summary (or the rendering of its result) raises
GptFail ==
    /\ pc = "gpt"
    /\ gpt_status' = "error"
    /\ pc' = AfterGptError
    /\ UNCHANGED <<excel_bytes, use_gpt, top_n, summary_df, shown, out_bytes,
                   df_for_gpt, last_call>>

Next == Run \/ GptOk \/ GptFail

Spec == Init /\ [][Next]_vars

SpecLabel == Init /\ [][RunLabel]_vars

SpecAmount == Init /\ [][RunAmount]_vars

SpecRepeat == Init /\ [][RunRepeat]_vars

---------------------------------------------------------------------------
(* What the claims say, stated without the operators above *)

Rows == excel_bytes.rows

Ran == pc # "idle"

\* the label pattern as the specification words it: whitespace, the literal
\* in any letter case, then any text at all
ClaimedLabel(cell) ==
    /\ cell.k = "text"
    /\ \E a \in 0..Len(cell.s) :
          /\ \A i \in 1..a : IsSpace(cell.s[i])
          /\ a + 9 <= Len(cell.s)
          /\ [i \in 1..9 |-> Lower(cell.s[a + i])]
                = <<"t", "o", "t", "a", "l", " ", "f", "o", "r">>

\* the text after the prefix
Remainder(s) ==
    LET a == CHOOSE a \in 0..Len(s) :
                 /\ \A i \in 1..a : IsSpace(s[i])
                 /\ a = Len(s) \/ ~IsSpace(s[a + 1])
    IN  SubSeq(s, a + 10, Len(s))

\* r without its leading and trailing whitespace
Trimmed(r) ==
    LET ij == CHOOSE ij \in (1..Len(r) + 1) \X (0..Len(r)) :
                  /\ ij[1] <= ij[2] + 1
                  /\ \A k \in 1..ij[1] - 1 : IsSpace(r[k])
                  /\ \A k \in ij[2] + 1..Len(r) : IsSpace(r[k])
                  /\ ij[1] <= ij[2] => ~IsSpace(r[ij[1]]) /\ ~IsSpace(r[ij[2]])
    IN  SubSeq(r, ij[1], ij[2])

ExpectedName(row) == Trimmed(Remainder(row[1].s))

\* digits, with an optional leading minus sign
NumericLooking(s) ==
    LET d == IF s # <<>> /\ s[1] = "-" THEN Tail(s) ELSE s
    IN  d # <<>> /\ \A i \in 1..Len(d) : IsDigit(d[i])

RECURSIVE PlaceValue(_)
PlaceValue(d) ==
    IF d = <<>> THEN 0
    ELSE DigitVal(d[Len(d)]) + 10 * PlaceValue(SubSeq(d, 1, Len(d) - 1))

NumericValue(s) ==
    IF s[1] = "-" THEN 0 - 10 * PlaceValue(Tail(s)) ELSE 10 * PlaceValue(s)

\* text that no reading makes a number: empty, all blanks, or holding a
\* character that is no digit, sign or blank
NotNumericText(s) ==
    \/ \A i \in 1..Len(s) : IsSpace(s[i])
    \/ \E i \in 1..Len(s) : ~IsDigit(s[i]) /\ ~IsSpace(s[i]) /\ s[i] \notin {"-", "+"}

\* a row whose amount is missing: short row, blank cell, text that is no number
Anomalous(row) ==
    \/ Len(row) <= 6
    \/ row[7].k = "blank"
    \/ row[7].k = "text" /\ NotNumericText(row[7].s)

HasNumber(row) ==
    /\ Len(row) > 6
    /\ \/ row[7].k \in {"int", "float"}
       \/ row[7].k = "text" /\ NumericLooking(row[7].s)

ExpectedNumber(row) ==
    IF row[7].k = "text" THEN Num(NumericValue(row[7].s)) ELSE Num(row[7].n)

Matching == {i \in 1..Len(Rows) : RowMatches(Rows[i])}

\* the place of row i among the matching rows
Rank(i) == Cardinality({j \in Matching : j <= i})

---------------------------------------------------------------------------
\* C1: a record is emitted for a row if and only if its column-0 value is
\* text matching (any letter case) whitespace, Total for, any remaining text;
\* number and blank labels are skipped; no matching label, empty output.
C1_EmitsIffClaimedPattern ==
    (Ran /\ excel_bytes.ok) =>
        /\ pc = "done"
        /\ Len(summary_df) = Cardinality({i \in 1..Len(Rows) : ClaimedLabel(Rows[i][1])})
        /\ \A i \in 1..Len(Rows) :
              Rows[i][1].k \in {"int", "float", "blank"} => i \notin Matching

\* C2: the output lists exactly one record per matching row, in the order of
\* the rows in the sheet; nothing is sorted, merged or deduplicated.
C2_OneRecordPerMatchInOrder ==
    (Ran /\ excel_bytes.ok) =>
        /\ Len(summary_df) = Cardinality(Matching)
        /\ \E f \in [1..Len(summary_df) -> Matching] :
              /\ \A a, b \in 1..Len(summary_df) : a < b => f[a] < f[b]
              /\ \A a \in 1..Len(summary_df) :
                    /\ summary_df[a].name = ExpectedName(Rows[f[a]])
                    /\ HasNumber(Rows[f[a]]) =>
                          summary_df[a].amount = ExpectedNumber(Rows[f[a]])
                    /\ Anomalous(Rows[f[a]]) => summary_df[a].amount = NaN

C2_Witness ==
    /\ pc = "done"
    /\ Len(summary_df) = 2
    /\ summary_df[1].name = summary_df[2].name
    /\ summary_df[1].amount = Num(0 - 30)
    /\ summary_df[2].amount = Num(50)

\* C3: for every matching row, project_name is the text after the prefix
\* (any letter case) without its leading and trailing whitespace, interior
\* unchanged; an empty or all-whitespace remainder gives the empty string.
C3_NameIsTrimmedRemainder ==
    (Ran /\ excel_bytes.ok) =>
        \A i \in Matching :
            /\ Rank(i) <= Len(summary_df)
            /\ summary_df[Rank(i)].name = ExpectedName(Rows[i])

C3_Witness ==
    /\ pc = "done"
    /\ Len(summary_df) = 1
    /\ summary_df[1].name = <<"A", " ", "b">>
    /\ Rows[1][1].s[1] = " "
    /\ Rows[1][1].s[2] = "T"
    /\ Rows[1][1].s[3] = "O"

\* C4: for every matching row whose column-6 cell is an integer, a float or
\* numeric-looking text (leading minus included), total_amount is that number
\* with its sign; a zero cell gives 0, which is not absent.
C4_NumbersKept ==
    (Ran /\ excel_bytes.ok) =>
        \A i \in Matching :
            /\ Rank(i) <= Len(summary_df)
            /\ HasNumber(Rows[i]) =>
                  /\ summary_df[Rank(i)].amount = ExpectedNumber(Rows[i])
                  /\ summary_df[Rank(i)].amount # NaN

C4_Witness ==
    /\ pc = "done"
    /\ Len(summary_df) = 1
    /\ Len(Rows[1]) > 6
    /\ Rows[1][7] = TextCell(<<"-", "3", "0">>)
    /\ summary_df[1].amount = Num(0 - 300)

\* C5: a matching row whose column-6 cell is blank, not a number or missing
\* (fewer than 7 columns) is still in the output with its project_name and an
\* absent total_amount, and the amounts of the other rows are what they would
\* be without it.
C5_AnomalyStaysLocal ==
    (Ran /\ excel_bytes.ok) =>
        /\ pc # "crashed"
        /\ \A i \in Matching :
              /\ Rank(i) <= Len(summary_df)
              /\ Anomalous(Rows[i]) =>
                    /\ summary_df[Rank(i)].amount = NaN
                    /\ summary_df[Rank(i)].name = ExpectedName(Rows[i])
              /\ HasNumber(Rows[i]) =>
                    summary_df[Rank(i)].amount = ExpectedNumber(Rows[i])

C5_Witness ==
    /\ pc = "done"
    /\ Len(summary_df) = 2
    /\ Len(Rows[1]) > 6
    /\ Rows[1][7] = TextCell(<<"n">>)
    /\ summary_df[1].amount = NaN
    /\ summary_df[2].amount = Num(50)

\* C6: the extraction fails only when the bytes do not parse into a table;
\* every table, whatever its cells, gives a result and no error.
C6_OnlyUnreadableFails ==
    Ran => ((pc = "crashed") <=> ~excel_bytes.ok)

C6_Witness ==
    /\ pc = "done"
    /\ excel_bytes.ok
    /\ \E i \in Matching : Len(Rows[i]) > 6 /\ Rows[i][7].k = "text"

\* the pairs read back from a written file: the rows under the header
ReadBack(bytes) ==
    LET rs == Tail(read_excel(bytes).rows)
    IN  [i \in 1..Len(rs) |->
            [name |-> IF rs[i][1].k = "text" THEN <<"text", rs[i][1].s>>
                      ELSE <<"absent", <<>>>>,
             amount |-> IF rs[i][2].k \in {"int", "float"} THEN Num(rs[i][2].n)
                        ELSE NaN]]

\* C7: writing the output with dataframe_to_excel_bytes and reading the file
\* back gives the same (project_name, total_amount) pairs in the same order,
\* absent amounts absent and numbers unchanged, empty project names included.
C7_RoundTrip ==
    out_bytes.present =>
        /\ out_bytes.sheet.rows[1]
              = <<TextCell(ProjectNameHeader), TextCell(TotalAmountHeader)>>
        /\ ReadBack(out_bytes.sheet)
              = [i \in 1..Len(summary_df) |->
                    [name |-> <<"text", summary_df[i].name>>,
                     amount |-> summary_df[i].amount]]

\* C8: when gpt_make_summary fails, the extracted records that are shown and
\* offered for download stay as they are, the failure is reported, and the
\* run goes on to its end.
C8_GptFailureIsLocal ==
    [][pc = "gpt" =>
          /\ summary_df' = summary_df
          /\ shown' = shown
          /\ out_bytes' = out_bytes
          /\ pc' = "done"
          /\ gpt_status' \in {"ok", "error"}]_vars

C8_Witness ==
    /\ pc = "done"
    /\ gpt_status = "error"
    /\ shown.kind = "table"
    /\ out_bytes.present

Count(df, r) == Cardinality({i \in 1..Len(df) : df[i] = r})

Present == {i \in 1..Len(summary_df) : summary_df[i].amount # NaN}

\* C10: the records sent to the summary hold no absent amount, are in
\* descending order of amount, number min(N, records with an amount), and
\* every record left out is no larger than every record kept.
C10_TopNAfterDroppingAbsent ==
    (pc \in {"gpt", "done"} /\ use_gpt /\ summary_df # <<>>) =>
        /\ \A i \in 1..Len(df_for_gpt) : df_for_gpt[i].amount # NaN
        /\ \A i \in 1..Len(df_for_gpt) - 1 :
              df_for_gpt[i].amount.n >= df_for_gpt[i + 1].amount.n
        /\ Len(df_for_gpt)
              = (IF top_n < Cardinality(Present) THEN top_n ELSE Cardinality(Present))
        /\ \A i \in 1..Len(df_for_gpt) :
              Count(df_for_gpt, df_for_gpt[i]) <= Count(summary_df, df_for_gpt[i])
        /\ \A j \in Present :
              Count(summary_df, summary_df[j]) > Count(df_for_gpt, summary_df[j]) =>
                  \A i \in 1..Len(df_for_gpt) :
                      summary_df[j].amount.n <= df_for_gpt[i].amount.n

C10_Witness ==
    /\ pc = "gpt"
    /\ top_n = 1
    /\ Len(df_for_gpt) = 1
    /\ df_for_gpt[1].amount = Num(50)
    /\ \E j \in Present : summary_df[j].amount = Num(0 - 30)

====
